---- MODULE Spec2Model ----
(***************************************************************************)
(* Model of typhon.collocations.collocator: the Collocator matching core   *)
(* (collocate, spatial_search, temporal pre-binning, index cache,          *)
(* _create_return), check_collocation_data, and the parallel driver        *)
(* collocate_filesets with its worker processes.                           *)
(*                                                                         *)
(* Arrays are sequences; index arrays hold the 0-based values of the       *)
(* source, so element i of array s is s[i+1].  Times are integer ticks,    *)
(* TicksPerSec ticks to the second.  Coordinates are integer grid values;  *)
(* on such values numpy.allclose is equality of the broadcast elements.    *)
(***************************************************************************)
EXTENDS Integers, Sequences, FiniteSets

\* ---- bounds of the model ----
MaxLen == 2
MaxTime == 3
MaxLat == 1
MaxDist == 1
MaxInterval == 2
MaxBinFactor == 2
TicksPerSec == 2

\* ---- program constants ----
\* NaN marks a missing coordinate, None an argument that was not given.
NaN == -1
None == -1
\* data_magnitude threshold of collocate (100_0000 in the source), scaled to
\* the model's array sizes: two sets of MaxLen samples are above it, a set of
\* one sample and any other set are below it.
Crossover == 2
DefaultMagnitudeFactor == 10
DefaultLeafSize == 40

\* The samples of a call: on the equator at tick 0 and at tick 1, off the
\* equator at tick 1, a late sample at MaxTime, and a sample without position
\* (lat = NaN); all on one meridian.
Lats == 0..MaxLat
Lons == {0}
PointValues == [time : {0, 1}, lat : {0}, lon : Lons]
                  \cup [time : {1}, lat : Lats \ {0}, lon : Lons]
                  \cup [time : {MaxTime}, lat : {0}, lon : Lons]
                  \cup [time : {0}, lat : {NaN}, lon : Lons]

\* ---- array helpers (numpy semantics) ----
Abs(x) == IF x < 0 THEN -x ELSE x
Max(a, b) == IF a > b THEN a ELSE b
Min(a, b) == IF a < b THEN a ELSE b

\* s[I] for an integer index array I (every index in range)
Take(s, I) == [k \in 1..Len(I) |-> s[I[k] + 1]]
\* numpy raises IndexError when an index is out of bounds
InRange(s, I) == \A k \in 1..Len(I) : I[k] >= 0 /\ I[k] < Len(s)
\* numpy.arange(n)
Arange(n) == [k \in 1..n |-> k - 1]
\* s[mask] for a boolean mask of the same length
RECURSIVE Mask(_, _)
Mask(s, m) ==
    IF s = <<>> THEN <<>>
    ELSE (IF Head(m) THEN <<Head(s)>> ELSE <<>>) \o Mask(Tail(s), Tail(m))
\* The element of a set of one element.  Only({e : x \in {v}}) is e with x
\* standing for the value of v, computed once as an assignment computes it.
Only(S) == CHOOSE out \in S : TRUE
\* ndarray.any() of a 2 x N index array: some element is non-zero
AnyNonZero(rows) == \E r \in 1..2 : \E k \in 1..Len(rows[r]) : rows[r][k] # 0

\* The canonical "no collocations" values of Collocator.__init__.  no_pairs is
\* numpy.array([[], []]): a float64 array, which numpy refuses as an index.
no_pairs == [dtype |-> "float", rows |-> << <<>>, <<>> >>]
no_distances == <<>>
IntPairs(rows) == [dtype |-> "int", rows |-> rows]

\* ---- typhon.geodesy / typhon.geographical (GeoIndex), outside src/ ----
\* great_circle_distance on the model's integer grid
Distance(lat1, lon1, lat2, lon2) == Abs(lat1 - lat2) + Abs(lon1 - lon2)

\* The Collocator before any index was built has index = None.
NoIndex == [built |-> FALSE, lat |-> <<>>, lon |-> <<>>]
\* GeoIndex(lat, lon, leaf_size=...): the index keeps the points it was built on
GeoIndex(lat, lon) == [built |-> TRUE, lat |-> lat, lon |-> lon]

\* GeoIndex.query(lat, lon, r): all (build point, query point) within r, row 0
\* the build points, row 1 the query points, query-major order.
QueryHits(self, lat, lon, r) ==
    LET nb == Len(self.lat)
        all == [k \in 1..(Len(lat) * nb) |-> <<(k - 1) % nb, (k - 1) \div nb>>]
        Near(bq) == Distance(self.lat[bq[1] + 1], self.lon[bq[1] + 1],
                             lat[bq[2] + 1], lon[bq[2] + 1]) <= r
    IN  SelectSeq(all, Near)
GeoIndexQuery(self, lat, lon, r) ==
    Only({[pairs |-> IntPairs(<< [k \in 1..Len(hits) |-> hits[k][1]],
                                 [k \in 1..Len(hits) |-> hits[k][2]] >>),
           distances |-> [k \in 1..Len(hits) |->
                            Distance(self.lat[hits[k][1] + 1], self.lon[hits[k][1] + 1],
                                     lat[hits[k][2] + 1], lon[hits[k][2] + 1])]]
          : hits \in {QueryHits(self, lat, lon, r)}})

\* ---- Collocator: index cache and build-side choice ----
\* numpy.allclose(a, b) on integer grid values: shapes broadcast when they are
\* equal or one of them has length 1, and raise ValueError otherwise.
Broadcastable(a, b) == Len(a) = Len(b) \/ Len(a) = 1 \/ Len(b) = 1
AllClose(a, b) ==
    LET n == IF Len(a) = 1 THEN Len(b) ELSE IF Len(b) = 1 THEN Len(a) ELSE Len(a)
        A(k) == IF Len(a) = 1 THEN a[1] ELSE a[k]
        B(k) == IF Len(b) = 1 THEN b[1] ELSE b[k]
    IN  \A k \in 1..n : A(k) = B(k)

\* Collocator._spatial_is_cached
_spatial_is_cached(self, lat, lon) ==
    IF ~self.index.built THEN FALSE
    ELSE IF ~(Broadcastable(lat, self.index.lat) /\ Broadcastable(lon, self.index.lon))
         THEN FALSE   \* except ValueError: the shapes are different
         ELSE AllClose(lat, self.index.lat) /\ AllClose(lon, self.index.lon)

\* Collocator._build_spatial_index: the index it returns, and whether it
\* printed "Spatial index is cached and can be reused"
_build_spatial_index(self, lat, lon) ==
    IF _spatial_is_cached(self, lat, lon)
    THEN [index |-> self.index, printed |-> TRUE]
    ELSE [index |-> GeoIndex(lat, lon), printed |-> FALSE]

\* Collocator._choose_points_to_build_index: TRUE = build with the primary points
_choose_points_to_build_index(self, lat1, lon1, lat2, lon2) ==
    IF Len(lat1) > Len(lat2) * self.magnitude_factor THEN TRUE
    ELSE IF Len(lat2) > Len(lat1) * self.magnitude_factor THEN FALSE
    ELSE IF self.index_with_primary /\ _spatial_is_cached(self, lat1, lon1) THEN TRUE
    ELSE IF ~self.index_with_primary /\ _spatial_is_cached(self, lat2, lon2) THEN FALSE
    ELSE Len(lat1) > Len(lat2)

\* Collocator.spatial_search: returns the pairs (row 0 primary), the distances
\* and the Collocator with its new index / index_with_primary.  exc is the
\* exception a search ends with ("" when it returns), reused tells that
\* _build_spatial_index printed "Spatial index is cached and can be reused".
\* spatial_search from "self.index = ..." on, with index_with_primary chosen
SearchWithIndex(self, iwp, build_points, query_points, max_distance) ==
    Only({Only({
        IF ~AnyNonZero(q.pairs.rows)
        THEN [self |-> [self EXCEPT !.index = built.index],
              pairs |-> no_pairs, distances |-> no_distances, exc |-> "",
              reused |-> built.printed]
        ELSE [self |-> [self EXCEPT !.index = built.index],
              pairs |-> IF iwp THEN q.pairs
                        ELSE IntPairs(<<q.pairs.rows[2], q.pairs.rows[1]>>),
              distances |-> q.distances, exc |-> "", reused |-> built.printed]
        : q \in {GeoIndexQuery(built.index, query_points.lat, query_points.lon,
                               max_distance)}})
        : built \in {_build_spatial_index(self, build_points.lat, build_points.lon)}})

spatial_search(self, lat1, lon1, lat2, lon2, max_distance) ==
    Only({SearchWithIndex([self EXCEPT !.index_with_primary = with_primary],
                          with_primary,
                          IF with_primary THEN [lat |-> lat1, lon |-> lon1]
                                          ELSE [lat |-> lat2, lon |-> lon2],
                          IF with_primary THEN [lat |-> lat2, lon |-> lon2]
                                          ELSE [lat |-> lat1, lon |-> lon1],
                          max_distance)
          : with_primary \in
                {_choose_points_to_build_index(self, lat1, lon1, lat2, lon2)}})

\* ---- Collocator: temporal pre-binning ----
\* index.searchsorted(t) on a time-sorted index: number of entries before t
SearchSorted(times, t) == Cardinality({k \in 1..Len(times) : times[k] < t})
\* positions (0-based, ascending) of the entries of a sorted index in [lo, hi]
Between(times, lo, hi) ==
    SelectSeq(Arange(Len(times)), LAMBDA i : times[i + 1] >= lo /\ times[i + 1] <= hi)

\* Collocator._bin_pairs for the bin [chunk1_start, chunk1_start + bin_duration)
\* of pandas.Grouper (bins anchored at time 0, the start of the day)
_bin_pairs(chunk1_start, bin_duration, primary, secondary, max_interval) ==
    Only({Only({
        [offset1 |-> SearchSorted(primary.time, chunk1_start),
         lat1 |-> Take(primary.lat, rows1), lon1 |-> Take(primary.lon, rows1),
         offset2 |-> SearchSorted(secondary.time, chunk1_start - max_interval),
         lat2 |-> Take(secondary.lat, rows2), lon2 |-> Take(secondary.lon, rows2)]
        \* chunk2 = secondary.loc[chunk2_start:chunk2_end], with chunk2_end =
        \* chunk1.index.max() + max_interval (unused when the chunk is empty)
        : rows2 \in {Between(secondary.time, chunk1_start - max_interval,
                             IF rows1 = <<>> THEN chunk1_start - max_interval
                             ELSE primary.time[rows1[Len(rows1)] + 1] + max_interval)}})
        : rows1 \in {Between(primary.time, chunk1_start,
                             chunk1_start + bin_duration - 1)}})

\* Collocator._spatial_search_bin
_spatial_search_bin(self, max_distance, b) ==
    IF b.lat1 = <<>> \/ b.lat2 = <<>>
    THEN [self |-> self, pairs |-> no_pairs, distances |-> no_distances, exc |-> "",
          reused |-> FALSE]
    ELSE LET r == spatial_search(self, b.lat1, b.lon1, b.lat2, b.lon2, max_distance)
         IN  [r EXCEPT !.pairs.rows =
                << [k \in 1..Len(@[1]) |-> @[1][k] + b.offset1],
                   [k \in 1..Len(@[2]) |-> @[2][k] + b.offset2] >>]

\* results = list(map(_spatial_search_bin, bins)) followed by numpy.hstack:
\* the bins are searched in time order, each leaving its index behind.
RECURSIVE SearchBins(_, _, _, _, _, _, _, _)
SearchBins(self, k, last, bin_duration, primary, secondary, max_distance, max_interval) ==
    IF k > last
    THEN [self |-> self, rows |-> << <<>>, <<>> >>, distances |-> <<>>, reused |-> FALSE]
    ELSE Only({Only({
             [self |-> rest.self,
              rows |-> <<r.pairs.rows[1] \o rest.rows[1], r.pairs.rows[2] \o rest.rows[2]>>,
              distances |-> r.distances \o rest.distances,
              reused |-> r.reused \/ rest.reused]
             : rest \in {SearchBins(r.self, k + 1, last, bin_duration, primary,
                                    secondary, max_distance, max_interval)}})
             : r \in {_spatial_search_bin(self, max_distance,
                         _bin_pairs(k * bin_duration, bin_duration, primary, secondary,
                                    max_interval))}})

\* distances[[0, 1]] = distances[[1, 0]] on a 1-d array of at least two entries
SwapFirstTwo(d) == [k \in 1..Len(d) |-> IF k = 1 THEN d[2] ELSE IF k = 2 THEN d[1] ELSE d[k]]

\* Collocator.spatial_search_with_temporal_binning; primary and secondary are
\* records of the time-sorted arrays lat, lon, time.  exc is the exception
\* the call ends with ("" when it returns).
spatial_search_with_temporal_binning(self, primary, secondary, max_distance, max_interval) ==
    LET bin_duration == self.bin_factor * max_interval
        swapped_datasets == Len(secondary.time) > Len(primary.time)
        p == IF swapped_datasets THEN secondary ELSE primary
        s == IF swapped_datasets THEN primary ELSE secondary
        first == p.time[1] \div bin_duration
        last == p.time[Len(p.time)] \div bin_duration
    IN  Only({
        IF ~AnyNonZero(r.rows)
        THEN [self |-> r.self, pairs |-> no_pairs, distances |-> no_distances, exc |-> "",
              reused |-> r.reused]
        ELSE IF ~swapped_datasets
        THEN [self |-> r.self, pairs |-> IntPairs(r.rows), distances |-> r.distances,
              exc |-> "", reused |-> r.reused]
        ELSE IF Len(r.distances) < 2
        THEN [self |-> r.self, pairs |-> no_pairs, distances |-> no_distances,
              exc |-> "IndexError", reused |-> r.reused]
        ELSE [self |-> r.self, pairs |-> IntPairs(<<r.rows[2], r.rows[1]>>),
              distances |-> SwapFirstTwo(r.distances), exc |-> "", reused |-> r.reused]
        : r \in {SearchBins(self, first, last, bin_duration, p, s, max_distance,
                            max_interval)}})

\* ---- Collocator: data preparation ----
\* A dataset is a sequence of samples [time, lat, lon, id]; id is an auxiliary
\* field carried through unchanged (the sample's position in the caller's data).
Dataset(values) == [k \in 1..Len(values) |->
                      [time |-> values[k].time, lat |-> values[k].lat,
                       lon |-> values[k].lon, id |-> k - 1]]
Column(ds, f) == [k \in 1..Len(ds) |-> ds[k][f]]
MinOf(s) == CHOOSE x \in {s[k] : k \in 1..Len(s)} : \A k \in 1..Len(s) : x <= s[k]
MaxOf(s) == CHOOSE x \in {s[k] : k \in 1..Len(s)} : \A k \in 1..Len(s) : x >= s[k]

\* Collocator._get_common_time_period with start = datetime.min and
\* end = datetime.max: the positions of ds inside the common time window
_get_common_time_period(ds, primary, secondary, max_interval) ==
    LET t1 == Column(primary, "time")
        t2 == Column(secondary, "time")
        common_start == Max(MinOf(t1) - max_interval, MinOf(t2) - max_interval)
        common_end == Min(MaxOf(t1) + max_interval, MaxOf(t2) + max_interval)
    IN  SelectSeq(Arange(Len(ds)),
                  LAMBDA i : ds[i + 1].time >= common_start /\ ds[i + 1].time <= common_end)

\* sortby: stable sort of positions by the time of the sample
RECURSIVE InsertByTime(_, _, _)
InsertByTime(ds, sorted, i) ==
    IF sorted = <<>> THEN <<i>>
    ELSE IF ds[Head(sorted) + 1].time > ds[i + 1].time THEN <<i>> \o sorted
    ELSE <<Head(sorted)>> \o InsertByTime(ds, Tail(sorted), i)
RECURSIVE SortByTime(_, _)
SortByTime(ds, period) ==
    IF period = <<>> THEN <<>>
    ELSE InsertByTime(ds, SortByTime(ds, SubSeq(period, 1, Len(period) - 1)),
                      period[Len(period)])

\* Collocator._prepare_data for flat data: with max_interval, the samples of
\* the common time period sorted by time; ok = FALSE is the (None, None) return
_prepare_data(primary, secondary, max_interval) ==
    IF max_interval = None
    THEN [ok |-> TRUE, primary |-> primary, secondary |-> secondary]
    ELSE LET primary_period == _get_common_time_period(primary, primary, secondary,
                                                       max_interval)
             secondary_period == _get_common_time_period(secondary, primary, secondary,
                                                         max_interval)
         IN  IF primary_period = <<>> \/ secondary_period = <<>>
             THEN [ok |-> FALSE, primary |-> <<>>, secondary |-> <<>>]
             ELSE [ok |-> TRUE,
                   primary |-> Take(primary, SortByTime(primary, primary_period)),
                   secondary |-> Take(secondary, SortByTime(secondary, secondary_period))]

\* Collocator._get_not_nans, as the positions numpy.arange(size)[not_nans]
_get_not_nans(dataset) ==
    SelectSeq(Arange(Len(dataset)),
              LAMBDA i : dataset[i + 1].lat # NaN /\ dataset[i + 1].lon # NaN)

FilteredPositions(rows, original_indices) == rows
\* Collocator._to_original
_to_original(rows, original_indices) ==
    << Take(original_indices[1], rows[1]), Take(original_indices[2], rows[2]) >>

\* Collocator._get_intervals: |time1 - time2| cast to timedelta64[s], which
\* truncates to whole seconds
_get_intervals(time1, time2) ==
    [k \in 1..Len(time1) |-> Abs(time1[k] - time2[k]) \div TicksPerSec]

\* Collocator._temporal_check: the mask intervals < max_interval
\* (max_interval in ticks, the intervals in whole seconds)
_temporal_check(primary_time, secondary_time, max_interval) ==
    LET intervals == _get_intervals(primary_time, secondary_time)
        passed_time_check == [k \in 1..Len(intervals) |->
                                intervals[k] * TicksPerSec < max_interval]
    IN  [passed |-> passed_time_check, intervals |-> Mask(intervals, passed_time_check)]

\* ---- Collocator._create_return ----
\* the values a collocate call comes back with
Empty == [kind |-> "empty", exc |-> "", variables |-> {}, primary |-> <<>>,
          secondary |-> <<>>, pairs |-> << <<>>, <<>> >>, interval |-> <<>>,
          distance |-> <<>>]
Raise(exc) == [Empty EXCEPT !.kind = "raise", !.exc = exc]
\* A spatial search on a set without any sample that has both coordinates:
\* GeoIndex on no points is outside src/, such calls are not made.
NoPoints == [Empty EXCEPT !.kind = "undefined"]

\* numpy.unique: the distinct values in ascending order
UniqueSorted(s) ==
    [j \in 1..Cardinality({s[k] : k \in 1..Len(s)}) |->
        CHOOSE x \in {s[k] : k \in 1..Len(s)} :
            Cardinality({s[k] : k \in 1..Len(s)} \cap (0..(x - 1))) = j - 1]
\* pandas.unique: the distinct values in order of first appearance
RECURSIVE Unique(_)
Unique(s) ==
    IF s = <<>> THEN <<>>
    ELSE LET u == Unique(SubSeq(s, 1, Len(s) - 1))
             x == s[Len(s)]
         IN  IF \E k \in 1..Len(u) : u[k] = x THEN u ELSE Append(u, x)

\* the compact position taken from the sorted distinct indices (numpy.unique)
\* although the subset is in order of first appearance
NewIndicesSorted(original_indices) ==
    [i \in 1..(MaxOf(original_indices) + 1) |->
        IF \E k \in 1..Len(original_indices) : original_indices[k] = i - 1
        THEN Cardinality({k \in 1..Len(original_indices) : original_indices[k] < i - 1})
        ELSE None]
\* new_indices = numpy.empty(max + 1); new_indices[original_indices] = arange;
\* the entries never assigned are uninitialised (None here) and never read
NewIndices(original_indices) ==
    [i \in 1..(MaxOf(original_indices) + 1) |->
        IF \E k \in 1..Len(original_indices) : original_indices[k] = i - 1
        THEN (CHOOSE k \in 1..Len(original_indices) : original_indices[k] = i - 1) - 1
        ELSE None]

RecordVariables == {"Collocations/pairs", "Collocations/interval",
                    "Collocations/distance", "Collocations/group"}

_create_return(primary, secondary, original_pairs, intervals, distances) ==
    IF ~AnyNonZero(original_pairs) THEN Empty
    ELSE LET original_indices == [i \in 1..2 |-> Unique(original_pairs[i])]
             collocation_indices == [i \in 1..2 |->
                 Take(NewIndices(original_indices[i]), original_pairs[i])]
         IN  [kind |-> "record", exc |-> "", variables |-> RecordVariables,
              primary |-> Take(primary, original_indices[1]),
              secondary |-> Take(secondary, original_indices[2]),
              pairs |-> <<collocation_indices[1], collocation_indices[2]>>,
              interval |-> intervals, distance |-> distances]

\* the pairs of a returned record, as pairs of sample ids
PairsOf(rec) ==
    IF rec.kind # "record" THEN {}
    ELSE {<<rec.primary[rec.pairs[1][k] + 1].id, rec.secondary[rec.pairs[2][k] + 1].id>> :
            k \in 1..Len(rec.pairs[1])}

\* ---- Collocator.collocate ----
\* Collocator.temporal_search
temporal_search == "NotImplementedError"

\* The arrays collocate searches in: the prepared data without the samples
\* whose lat or lon is NaN.
Fields(dataset, not_nans) ==
    [lat |-> Take(Column(dataset, "lat"), not_nans),
     lon |-> Take(Column(dataset, "lon"), not_nans),
     time |-> Take(Column(dataset, "time"), not_nans)]

\* collocate from "if max_interval is None" on: spatial collocations only.
\* printed tells that the call printed "Spatial index is cached ...".
CollocateSpatial(self, primary, secondary, original_indices, f1, f2, max_distance) ==
    Only({
        IF r.pairs.dtype # "int"
           \/ ~InRange(f1.time, r.pairs.rows[1]) \/ ~InRange(f2.time, r.pairs.rows[2])
        THEN \* time1[pairs[0]]: a float64 or out-of-bounds index array
             [self |-> r.self, printed |-> r.reused, ret |-> Raise("IndexError")]
        ELSE [self |-> r.self, printed |-> r.reused,
              ret |-> _create_return(primary, secondary,
                         _to_original(r.pairs.rows, original_indices),
                         _get_intervals(Take(f1.time, r.pairs.rows[1]),
                                        Take(f2.time, r.pairs.rows[2])),
                         r.distances)]
        : r \in {spatial_search(self, f1.lat, f1.lon, f2.lat, f2.lon, max_distance)}})

\* collocate from "passed_temporal_check, intervals = ..." on
CheckAndReturn(primary, secondary, original_indices, rows, distances, tc) ==
    _create_return(primary, secondary,
                   _to_original(<<Mask(rows[1], tc.passed), Mask(rows[2], tc.passed)>>,
                                original_indices),
                   tc.intervals, Mask(distances, tc.passed))

\* collocate from "data_magnitude = ..." on, with the search of either branch:
\* binning = TRUE is spatial_search_with_temporal_binning, FALSE spatial_search
SearchBoth(binning, self, primary, secondary, original_indices, f1, f2, max_distance, max_interval) ==
    Only({
        IF r.exc # "" THEN [self |-> r.self, printed |-> r.reused, ret |-> Raise(r.exc)]
        ELSE IF ~AnyNonZero(r.pairs.rows)
        THEN [self |-> r.self, printed |-> r.reused, ret |-> Empty]
        ELSE IF ~InRange(f1.time, r.pairs.rows[1]) \/ ~InRange(f2.time, r.pairs.rows[2])
        THEN [self |-> r.self, printed |-> r.reused, ret |-> Raise("IndexError")]
        ELSE [self |-> r.self, printed |-> r.reused,
              ret |-> CheckAndReturn(primary, secondary, original_indices,
                         r.pairs.rows, r.distances,
                         _temporal_check(Take(f1.time, r.pairs.rows[1]),
                                         Take(f2.time, r.pairs.rows[2]), max_interval))]
        : r \in {IF binning
                 THEN spatial_search_with_temporal_binning(self, f1, f2, max_distance,
                                                           max_interval)
                 ELSE spatial_search(self, f1.lat, f1.lon, f2.lat, f2.lon,
                                     max_distance)}})

\* collocate from "data_magnitude = ..." on: both criteria
CollocateBoth(self, primary, secondary, original_indices, f1, f2, max_distance, max_interval) ==
    LET data_magnitude == Len(f1.time) * Len(f2.time)
    IN  SearchBoth(data_magnitude > Crossover, self, primary, secondary,
                   original_indices, f1, f2, max_distance, max_interval)

\* collocate from "timer = Timer().start()" on: the prepared data is there,
\* self holds the tunables of the call
CollocatePrepared(self, primary, secondary, original_indices, a) ==
    IF a.max_distance # None /\ (original_indices[1] = <<>> \/ original_indices[2] = <<>>)
    THEN [self |-> self, printed |-> FALSE, ret |-> NoPoints]
    ELSE IF a.max_interval = None
    THEN CollocateSpatial(self, primary, secondary, original_indices,
                          Fields(primary, original_indices[1]),
                          Fields(secondary, original_indices[2]), a.max_distance)
    ELSE IF a.max_distance = None
    THEN [self |-> self, printed |-> FALSE, ret |-> Raise(temporal_search)]
    ELSE CollocateBoth(self, primary, secondary, original_indices,
                       Fields(primary, original_indices[1]),
                       Fields(secondary, original_indices[2]),
                       a.max_distance, a.max_interval)

\* collocate with the tunables stored before the criteria are looked at
CollocateStoresFirst(self, primary, secondary, a) ==
    IF a.max_distance = None /\ a.max_interval = None
    THEN [self |-> [self EXCEPT !.bin_factor = a.bin_factor,
                                !.magnitude_factor = a.magnitude_factor,
                                !.tunnel_limit = a.tunnel_limit,
                                !.leaf_size = a.leaf_size],
          printed |-> FALSE, ret |-> Raise("ValueError")]
    ELSE Only({
         IF ~prep.ok THEN [self |-> self, printed |-> FALSE, ret |-> Empty]
         ELSE CollocatePrepared([self EXCEPT !.bin_factor = a.bin_factor,
                                             !.magnitude_factor = a.magnitude_factor,
                                             !.tunnel_limit = a.tunnel_limit,
                                             !.leaf_size = a.leaf_size],
                                prep.primary, prep.secondary,
                                <<_get_not_nans(prep.primary),
                                  _get_not_nans(prep.secondary)>>, a)
         : prep \in {_prepare_data(primary, secondary, a.max_interval)}})

\* Collocator.collocate(primary, secondary, max_interval, max_distance,
\* bin_factor, magnitude_factor, tunnel_limit, leaf_size) on the Collocator
\* self: the Collocator after the call and what the call comes back with.
collocate(self, primary, secondary, a) ==
    IF a.max_distance = None /\ a.max_interval = None
    THEN [self |-> self, printed |-> FALSE, ret |-> Raise("ValueError")]
    ELSE Only({
         IF ~prep.ok THEN [self |-> self, printed |-> FALSE, ret |-> Empty]
         ELSE CollocatePrepared([self EXCEPT !.bin_factor = a.bin_factor,
                                             !.magnitude_factor = a.magnitude_factor,
                                             !.tunnel_limit = a.tunnel_limit,
                                             !.leaf_size = a.leaf_size],
                                prep.primary, prep.secondary,
                                <<_get_not_nans(prep.primary),
                                  _get_not_nans(prep.secondary)>>, a)
         : prep \in {_prepare_data(primary, secondary, a.max_interval)}})

\* the mandatory fields looked for only in a dataset that has variables
CheckOnlyFilledData(dataset) ==
    IF dataset.variables # {}
       /\ \E mandatory_field \in {"Collocations/pairs", "Collocations/group"} :
              mandatory_field \notin dataset.variables
    THEN "InvalidCollocationData"
    ELSE "ok"
\* only the first mandatory field looked for
CheckOnlyPairs(dataset) ==
    IF "Collocations/pairs" \notin dataset.variables
    THEN "InvalidCollocationData"
    ELSE "ok"
\* check_collocation_data
check_collocation_data(dataset) ==
    IF \E mandatory_field \in {"Collocations/pairs", "Collocations/group"} :
           mandatory_field \notin dataset.variables
    THEN "InvalidCollocationData"
    ELSE "ok"

\* ---- the state machine ----
VARIABLES
    index,               \* Collocator.index
    index_with_primary,  \* Collocator.index_with_primary
    bin_factor, magnitude_factor, tunnel_limit, leaf_size,  \* Collocator tunables
    pc,                  \* where the caller is: "idle", "returned", "checked", ...
    call,                \* the arguments of the last call
    result,              \* what that call came back with
    printed,             \* it printed "Spatial index is cached and can be reused"
    checked,             \* outcome of check_collocation_data on result
    cached,              \* answer of _spatial_is_cached, or of
                         \* _choose_points_to_build_index, to the last question
    process_list,        \* collocate_filesets: the worker processes
    results,             \* collocate_filesets: the queue of results
    errors,              \* collocate_filesets: the queue of errors
    running,             \* collocate_filesets: the processes last seen alive
    yielded,             \* what collocate_filesets has yielded so far
    processed_matches,   \* collocate_filesets: the results taken from the queue
    reported             \* the "Failed process" reports printed so far

collocator == <<index, index_with_primary, bin_factor, magnitude_factor,
                tunnel_limit, leaf_size>>
driver == <<process_list, results, errors, running, yielded, processed_matches,
           reported>>
vars == <<index, index_with_primary, bin_factor, magnitude_factor, tunnel_limit,
          leaf_size, pc, call, result, printed, checked, cached,
          process_list, results, errors, running, yielded, processed_matches,
          reported>>

Self == [index |-> index, index_with_primary |-> index_with_primary,
         bin_factor |-> bin_factor, magnitude_factor |-> magnitude_factor,
         tunnel_limit |-> tunnel_limit, leaf_size |-> leaf_size]

\* Collocator.__init__
NewCollocator == [index |-> NoIndex, index_with_primary |-> FALSE,
                  bin_factor |-> None, magnitude_factor |-> None,
                  tunnel_limit |-> None, leaf_size |-> None]

\* the inputs of a call
PointSets == UNION {[1..n -> PointValues] : n \in 1..MaxLen}
MaxIntervals == {None} \cup (1..MaxInterval)
MaxDistances == {None} \cup (0..MaxDist)
BinFactors == 1..MaxBinFactor
\* The calls made: every combination of the two criteria, with the default
\* tunables; a search with both criteria also with every bin_factor.
Arguments ==
    [max_interval : MaxIntervals, max_distance : MaxDistances,
     bin_factor : {1}, magnitude_factor : {DefaultMagnitudeFactor},
     tunnel_limit : {None}, leaf_size : {DefaultLeafSize}]
    \cup [max_interval : 1..MaxInterval, max_distance : 0..MaxDist,
          bin_factor : BinFactors, magnitude_factor : {DefaultMagnitudeFactor},
          tunnel_limit : {None}, leaf_size : {DefaultLeafSize}]
NoArguments == [max_interval |-> None, max_distance |-> None, bin_factor |-> None,
                magnitude_factor |-> None, tunnel_limit |-> None, leaf_size |-> None]
NoCall == [primary |-> <<>>, secondary |-> <<>>, args |-> NoArguments]
\* coordinate arrays _spatial_is_cached is asked about
CoordArrays == UNION {[1..n -> 0..MaxLat] : n \in 1..(MaxLen + 1)}

\* collocate_filesets was not called
NoDriver ==
    /\ process_list = <<>>
    /\ results = <<>>
    /\ errors = <<>>
    /\ running = {}
    /\ yielded = <<>>
    /\ processed_matches = 0
    /\ reported = <<>>

InitCollocator ==
    /\ index = NewCollocator.index
    /\ index_with_primary = NewCollocator.index_with_primary
    /\ bin_factor = NewCollocator.bin_factor
    /\ magnitude_factor = NewCollocator.magnitude_factor
    /\ tunnel_limit = NewCollocator.tunnel_limit
    /\ leaf_size = NewCollocator.leaf_size

Init ==
    /\ InitCollocator
    /\ NoDriver
    /\ pc = "idle"
    /\ call = NoCall
    /\ result = Empty
    /\ printed = FALSE
    /\ checked = ""
    /\ cached = FALSE

\* a caller runs collocate(primary, secondary, **args)
Collocate ==
    /\ pc = "idle"
    /\ \E p \in PointSets, s \in PointSets, a \in Arguments :
         /\ \E r \in {collocate(Self, Dataset(p), Dataset(s), a)} :
                /\ r.ret.kind # "undefined"
                /\ index' = r.self.index
                /\ index_with_primary' = r.self.index_with_primary
                /\ bin_factor' = r.self.bin_factor
                /\ magnitude_factor' = r.self.magnitude_factor
                /\ tunnel_limit' = r.self.tunnel_limit
                /\ leaf_size' = r.self.leaf_size
                /\ result' = r.ret
                /\ printed' = r.printed
         /\ call' = [primary |-> Dataset(p), secondary |-> Dataset(s), args |-> a]
    /\ pc' = "returned"
    /\ UNCHANGED <<checked, cached>>
    /\ UNCHANGED driver

\* the caller hands the returned dataset to check_collocation_data
CheckCollocationData ==
    /\ pc = "returned"
    /\ result.kind # "raise"
    /\ checked' = check_collocation_data(result)
    /\ pc' = "checked"
    /\ UNCHANGED <<collocator, call, result, printed, cached>>
    /\ UNCHANGED driver

\* a caller hands a dataset of its own, with any of the fields, to
\* check_collocation_data
CheckDataset ==
    /\ pc = "idle"
    /\ \E variables \in SUBSET RecordVariables :
         /\ result' = [Empty EXCEPT !.kind = "dataset", !.variables = variables]
         /\ checked' = check_collocation_data([variables |-> variables])
    /\ pc' = "checked"
    /\ UNCHANGED <<collocator, call, printed, cached>>
    /\ UNCHANGED driver

\* _spatial_is_cached(lat, lon) is asked between two calls
SpatialIsCached ==
    /\ pc = "idle"
    /\ \E lat \in CoordArrays, lon \in CoordArrays :
         /\ Len(lat) = Len(lon)
         /\ call' = [lat |-> lat, lon |-> lon]
         /\ cached' = _spatial_is_cached(Self, lat, lon)
    /\ pc' = "asked"
    /\ UNCHANGED <<collocator, result, printed, checked>>
    /\ UNCHANGED driver

\* _choose_points_to_build_index(primary, secondary) is asked between two
\* calls of a copy of the Collocator whose magnitude_factor was set, for points
\* on the meridian of Lons
ChoosePointsToBuildIndex ==
    /\ pc = "idle"
    /\ \E lat1 \in CoordArrays, lat2 \in CoordArrays, m \in {1, DefaultMagnitudeFactor} :
         /\ call' = [lat1 |-> lat1, lon1 |-> [k \in DOMAIN lat1 |-> 0],
                     lat2 |-> lat2, lon2 |-> [k \in DOMAIN lat2 |-> 0],
                     magnitude_factor |-> m]
         /\ cached' = _choose_points_to_build_index(
                          [Self EXCEPT !.magnitude_factor = m],
                          lat1, [k \in DOMAIN lat1 |-> 0],
                          lat2, [k \in DOMAIN lat2 |-> 0])
    /\ pc' = "chosen"
    /\ UNCHANGED <<collocator, result, printed, checked>>
    /\ UNCHANGED driver

\* the caller is done with the answer; the Collocator stays for the next call
Done ==
    /\ pc \in {"returned", "checked", "asked", "chosen"}
    /\ pc' = "idle"
    /\ call' = NoCall
    /\ result' = Empty
    /\ printed' = FALSE
    /\ checked' = ""
    /\ cached' = FALSE
    /\ UNCHANGED collocator
    /\ UNCHANGED driver

Next ==
    \/ Collocate
    \/ CheckCollocationData
    \/ CheckDataset
    \/ SpatialIsCached
    \/ ChoosePointsToBuildIndex
    \/ Done

Spec == Init /\ [][Next]_vars

\* ---- _create_return on its own: any pair arrays over two datasets ----
MaxPairs == 3
\* a dataset of n samples, one per tick
Track(n) == Dataset([k \in 1..n |-> [time |-> k - 1, lat |-> 0, lon |-> 0]])
IndexArrays(n, len) == [1..n -> 0..(len - 1)]
ReturnCalls ==
    UNION {[primary : {Track(n1)}, secondary : {Track(n2)},
            original_pairs : {<<r1, r2>> : r1 \in IndexArrays(n, n1),
                                            r2 \in IndexArrays(n, n2)},
            intervals : {Arange(n)}, distances : {Arange(n)}] :
           n1 \in 1..MaxLen, n2 \in 1..MaxLen, n \in 0..MaxPairs}

InitReturn ==
    /\ InitCollocator
    /\ NoDriver
    /\ pc = "assemble"
    /\ call \in ReturnCalls
    /\ result = Empty
    /\ printed = FALSE
    /\ checked = ""
    /\ cached = FALSE

CreateReturn ==
    /\ pc = "assemble"
    /\ result' = _create_return(call.primary, call.secondary, call.original_pairs,
                                call.intervals, call.distances)
    /\ pc' = "assembled"
    /\ UNCHANGED <<collocator, call, printed, checked, cached>>
    /\ UNCHANGED driver

NextReturn == CreateReturn

SpecReturn == InitReturn /\ [][NextReturn]_vars

\* ---- the two searches with both criteria side by side ----
\* time-sorted point sets in which every sample has a position
IsSorted(values) == \A k \in 1..(Len(values) - 1) : values[k].time <= values[k + 1].time
SortedSets == {v \in PointSets : IsSorted(v) /\ \A k \in 1..Len(v) : v[k].lat # NaN}
BothArguments == {a \in Arguments : a.max_interval # None /\ a.max_distance # None}
NotSearched == [Empty EXCEPT !.kind = "none"]

InitBinning ==
    /\ InitCollocator
    /\ NoDriver
    /\ pc = "search"
    /\ call \in [primary : {Dataset(v) : v \in SortedSets},
                 secondary : {Dataset(v) : v \in SortedSets}, args : BothArguments]
    /\ result = [binned |-> NotSearched, direct |-> NotSearched]
    /\ printed = FALSE
    /\ checked = ""
    /\ cached = FALSE

\* either search followed by the temporal check, on a Collocator that holds
\* the tunables of the call and no index
SearchOn(binning) ==
    LET all1 == Arange(Len(call.primary))
        all2 == Arange(Len(call.secondary))
        self == [NewCollocator EXCEPT !.bin_factor = call.args.bin_factor,
                                      !.magnitude_factor = call.args.magnitude_factor,
                                      !.leaf_size = call.args.leaf_size]
    IN  SearchBoth(binning, self, call.primary, call.secondary, <<all1, all2>>,
                   Fields(call.primary, all1), Fields(call.secondary, all2),
                   call.args.max_distance, call.args.max_interval).ret

BinnedSearch ==
    /\ pc = "search"
    /\ result.binned.kind = "none"
    /\ result' = [result EXCEPT !.binned = SearchOn(TRUE)]
    /\ UNCHANGED <<collocator, pc, call, printed, checked, cached>>
    /\ UNCHANGED driver

DirectSearch ==
    /\ pc = "search"
    /\ result.direct.kind = "none"
    /\ result' = [result EXCEPT !.direct = SearchOn(FALSE)]
    /\ UNCHANGED <<collocator, pc, call, printed, checked, cached>>
    /\ UNCHANGED driver

NextBinning == BinnedSearch \/ DirectSearch

SpecBinning == InitBinning /\ [][NextBinning]_vars

\* ---- what a search hands to the index layer ----
\* the keyword arguments of GeoIndex(lat, lon, ...) in _build_spatial_index
GeoIndexArguments(self) == [leaf_size |-> self.leaf_size]
\* the keyword arguments of index.query(lat, lon, ...) in spatial_search
QueryArguments(max_distance) == [r |-> max_distance]
\* The metric of the index layer: haversine when it was handed a tunnel_limit
\* and the radius of the query is greater, the tunnel metric otherwise.
Handed(kwargs) == IF "tunnel_limit" \in DOMAIN kwargs THEN kwargs.tunnel_limit ELSE None
Metric(index_kwargs, query_kwargs) ==
    IF \E limit \in {Handed(index_kwargs), Handed(query_kwargs)} :
          limit # None /\ query_kwargs.r > limit
    THEN "haversine"
    ELSE "tunnel"

TunnelLimits == {None} \cup (0..MaxDist)
TunnelArguments ==
    [max_interval : {None}, max_distance : 0..MaxDist, bin_factor : {1},
     magnitude_factor : {DefaultMagnitudeFactor}, tunnel_limit : TunnelLimits,
     leaf_size : {DefaultLeafSize}]

InitTunnel ==
    /\ InitCollocator
    /\ NoDriver
    /\ pc = "idle"
    /\ call = NoCall
    /\ result = Empty
    /\ printed = FALSE
    /\ checked = ""
    /\ cached = FALSE

\* collocate(primary, secondary, max_distance=..., tunnel_limit=...) on a new
\* Collocator; call keeps what the search handed to the index layer
CollocateTunnel ==
    /\ pc = "idle"
    /\ \E p \in PointSets, s \in PointSets, a \in TunnelArguments :
         \E r \in {collocate(Self, Dataset(p), Dataset(s), a)} :
            /\ r.ret.kind # "undefined"
            /\ index' = r.self.index
            /\ index_with_primary' = r.self.index_with_primary
            /\ bin_factor' = r.self.bin_factor
            /\ magnitude_factor' = r.self.magnitude_factor
            /\ tunnel_limit' = r.self.tunnel_limit
            /\ leaf_size' = r.self.leaf_size
            /\ result' = r.ret
            /\ printed' = r.printed
            /\ call' = [primary |-> Dataset(p), secondary |-> Dataset(s), args |-> a,
                        index |-> GeoIndexArguments(r.self),
                        query |-> QueryArguments(a.max_distance)]
    /\ pc' = "returned"
    /\ UNCHANGED <<checked, cached>>
    /\ UNCHANGED driver

NextTunnel == CollocateTunnel

SpecTunnel == InitTunnel /\ [][NextTunnel]_vars

\* ---- Collocator.collocate_filesets: the parallel driver ----
MaxMatches == 3
MaxProcesses == 2

\* What the file-set layer hands over for a match.  A match pairs one primary
\* file with one secondary file; the files hold samples with valid positions,
\* or one of them cannot be read.
FileSample == [time |-> 0, lat |-> 0, lon |-> 0]
FilePairs ==
    { [readable |-> TRUE, primary |-> <<FileSample>>, secondary |-> <<FileSample>>],
      [readable |-> TRUE, primary |-> <<FileSample>>,
       secondary |-> <<FileSample, FileSample>>],
      [readable |-> FALSE, primary |-> <<>>, secondary |-> <<>>] }
MatchLists == UNION {[1..n -> FilePairs] : n \in 0..MaxMatches}
\* matches come ordered by time: the primary file of the k-th match covers
\* the period from 2k-1 to 2k
Times(k) == <<2 * k - 1, 2 * k>>
\* the keyword arguments handed through to collocate
DriverArguments ==
    {a \in Arguments : /\ a.max_interval \in {None, 1}
                       /\ a.max_distance \in {None, 0}
                       /\ a.bin_factor = 1}
DriverCalls ==
    [filesets : {2, 3}, matches : MatchLists, processes : 1..MaxProcesses,
     skip_file_errors : BOOLEAN, args : DriverArguments]

\* the matches dealt out in turn, one to each chunk
SplitInTurn(n, sections) ==
    [i \in 1..sections |->
        [k \in 1..((n \div sections) + (IF i <= n % sections THEN 1 ELSE 0)) |->
            (k - 1) * sections + i]]
\* numpy.array_split(matches, sections) for n matches: the positions (from 1)
\* of the matches of each chunk
array_split(n, sections) ==
    [i \in 1..sections |->
        [k \in 1..((n \div sections) + (IF i <= n % sections THEN 1 ELSE 0)) |->
            (i - 1) * (n \div sections) + Min(i - 1, n % sections) + k]]

\* Process(target=Collocator._process_caller, args=(self, ...), matches=chunk):
\* the process works on its own copy of the Collocator.  buffer holds what
\* results.put accepted and the queue's feeder thread has not yet sent.
Process(self, matches_chunk) ==
    [collocator |-> self, matches |-> matches_chunk, position |-> 1,
     processed |-> 0, buffer |-> <<>>, alive |-> TRUE, failed |-> FALSE]

\* _collocate_files for one file pair that was read: collocate, then
\* "yield None" for a dataset without variables, else check_collocation_data
\* and yield the collocations
CollocateFilePair(self, file_pair, a) ==
    Only({[self |-> r.self,
           raised |-> \/ r.ret.kind = "raise"
                      \/ /\ r.ret.variables # {}
                         /\ check_collocation_data(r.ret) # "ok",
           null |-> r.ret.variables = {},
           pairs |-> PairsOf(r.ret)] :
          r \in {collocate(self, Dataset(file_pair.primary),
                           Dataset(file_pair.secondary), a)}})

\* The Collocators a process can hold: the attributes as __init__ or a call
\* of collocate set them, the index none or built on the positions of a file.
Collocators ==
    [index : {NoIndex} \cup {GeoIndex([k \in 1..n |-> FileSample.lat],
                                      [k \in 1..n |-> FileSample.lon]) : n \in 1..2},
     index_with_primary : BOOLEAN,
     bin_factor : {None} \cup {a.bin_factor : a \in DriverArguments},
     magnitude_factor : {None, DefaultMagnitudeFactor},
     tunnel_limit : {None},
     leaf_size : {None, DefaultLeafSize}]
\* CollocateFilePair tabulated: it is evaluated once for every Collocator,
\* file pair and arguments, and looked up from then on
CollocatedFilePairs ==
    {[self |-> self, file_pair |-> file_pair, a |-> a,
      collocated |-> CollocateFilePair(self, file_pair, a)] :
       self \in Collocators, file_pair \in {f \in FilePairs : f.readable},
       a \in DriverArguments}
Collocated(self, file_pair, a) ==
    (CHOOSE c \in CollocatedFilePairs :
        c.self = self /\ c.file_pair = file_pair /\ c.a = a).collocated

\* the file pair process w works on next
Current(w) == call.matches[process_list[w].matches[process_list[w].position]]
HasNext(w) ==
    /\ process_list[w].alive
    /\ process_list[w].position <= Len(process_list[w].matches)
\* results = Queue(maxsize=processes): items accepted by put and not yet taken
RECURSIVE Buffered(_)
Buffered(n) == IF n = 0 THEN 0 ELSE Len(process_list[n].buffer) + Buffered(n - 1)
NeverFull == FALSE
Full == Len(results) + Buffered(Len(process_list)) >= Len(process_list)

LastPutFirst(queue, item) == <<item>> \o queue
\* Queue.put: the item goes behind the items put before it
put(queue, item) == Append(queue, item)

\* collocate_filesets(filesets, processes=..., skip_file_errors=..., **args)
\* up to the polling loop
CollocateFilesets ==
    /\ pc = "idle"
    /\ \E c \in DriverCalls :
         /\ call' = c
         /\ IF \/ c.filesets # 2
               \/ c.args.max_interval = None
               \/ Min(c.processes, Len(c.matches)) <= 0
            THEN /\ result' = Raise("ValueError")
                 /\ pc' = "raised"
                 /\ UNCHANGED <<process_list, running>>
            ELSE /\ process_list' =
                      Only({[i \in 1..Len(matches_chunks) |-> Process(Self, matches_chunks[i])] :
                            matches_chunks \in {array_split(Len(c.matches),
                                                  Min(c.processes, Len(c.matches)))}})
                 /\ running' = 1..Min(c.processes, Len(c.matches))
                 /\ pc' = "poll"
                 /\ UNCHANGED result
    /\ UNCHANGED <<collocator, printed, checked, cached, results, errors, yielded, processed_matches, reported>>

\* the file info that align gives with the data of a file: the file of fileset
\* f (1 the primary, 2 the secondary) of match k, its path and its attributes
FileInfo(f, k) == [path |-> <<f, k>>, attr |-> {<<f, k>>}]

\* _collocate_files: "files = file_pair[1][0], file_pair[1][0]", where
\* file_pair[0] belongs to the primary and file_pair[1] to the secondary
files(k) == <<FileInfo(2, k), FileInfo(2, k)>>

\* _process_caller: the next file pair gives a result, results.put(result);
\* the result has the attributes "<fileset name>_file" = files[f].path and
\* comes with the attributes collected from files
WorkerPut(w) ==
    /\ pc \in {"poll", "drain"}
    /\ HasNext(w)
    /\ Current(w).readable
    /\ ~Full
    /\ ~Collocated(process_list[w].collocator, Current(w), call.args).raised
    /\ process_list' =
         Only({[process_list EXCEPT
                  ![w].collocator = r.self,
                  ![w].buffer = put(@, [name |-> w,
                                        match |-> process_list[w].matches[process_list[w].position],
                                        null |-> r.null, pairs |-> r.pairs,
                                        primary_file |-> files(process_list[w].matches[process_list[w].position])[1].path,
                                        secondary_file |-> files(process_list[w].matches[process_list[w].position])[2].path,
                                        attributes |-> UNION {files(process_list[w].matches[process_list[w].position])[f].attr : f \in 1..2}]),
                  ![w].processed = @ + 1,
                  ![w].position = @ + 1] :
               r \in {Collocated(process_list[w].collocator, Current(w), call.args)}})
    /\ UNCHANGED <<collocator, pc, call, result, printed, checked, cached>>
    /\ UNCHANGED <<results, errors, running, yielded, processed_matches, reported>>

\* the queue's feeder thread of process w sends the oldest buffered result
Feed(w) ==
    /\ pc \in {"poll", "drain"}
    /\ process_list[w].buffer # <<>>
    /\ results' = Append(results, Head(process_list[w].buffer))
    /\ process_list' = [process_list EXCEPT ![w].buffer = Tail(@)]
    /\ UNCHANGED <<collocator, pc, call, result, printed, checked, cached>>
    /\ UNCHANGED <<errors, running, yielded, processed_matches, reported>>

\* align(skip_errors=True) passes over a file pair it cannot read
WorkerSkip(w) ==
    /\ pc \in {"poll", "drain"}
    /\ HasNext(w)
    /\ ~Current(w).readable
    /\ call.skip_file_errors
    /\ process_list' = [process_list EXCEPT ![w].position = @ + 1]
    /\ UNCHANGED <<collocator, pc, call, result, printed, checked, cached>>
    /\ UNCHANGED <<results, errors, running, yielded, processed_matches, reported>>

\* the file pair the error message of _process_caller names: the one at index
\* "processed" of the chunk, None past the end
FailedMatch(matches_chunk, processed) ==
    IF processed < Len(matches_chunk) THEN matches_chunk[processed + 1] ELSE None

\* _process_caller: the next file pair raises (the file cannot be read, or
\* collocate or check_collocation_data raises).  The handler builds
\* error = [name, exception.__traceback__, msg, processed] and errors.put(error);
\* msg += "\n" raises instead when no file pair was found for the message.
\* The feeder thread of errors pickles the item after put has returned and
\* drops an item it cannot pickle; whether a traceback object can be pickled
\* is up to the runtime, so an error that was put arrives or not.  The process
\* ends once its feeder threads are done.
WorkerFail(w) ==
    /\ pc \in {"poll", "drain"}
    /\ HasNext(w)
    /\ process_list[w].buffer = <<>>
    /\ \/ ~Current(w).readable /\ ~call.skip_file_errors
       \/ /\ Current(w).readable
          /\ Collocated(process_list[w].collocator, Current(w), call.args).raised
    /\ \E arrives \in BOOLEAN, msg \in {FailedMatch(process_list[w].matches, process_list[w].processed)} :
         errors' = IF msg # None /\ arrives
                   THEN Append(errors, [name |-> w, msg |-> msg,
                                        processed |-> process_list[w].processed])
                   ELSE errors
    /\ process_list' = [process_list EXCEPT ![w].alive = FALSE, ![w].failed = TRUE]
    /\ UNCHANGED <<collocator, pc, call, result, printed, checked, cached>>
    /\ UNCHANGED <<results, running, yielded, processed_matches, reported>>

\* _process_caller: the chunk is through, "Finished all ... matches"
WorkerFinish(w) ==
    /\ pc \in {"poll", "drain"}
    /\ process_list[w].alive
    /\ process_list[w].position > Len(process_list[w].matches)
    /\ process_list[w].buffer = <<>>
    /\ process_list' = [process_list EXCEPT ![w].alive = FALSE]
    /\ UNCHANGED <<collocator, pc, call, result, printed, checked, cached>>
    /\ UNCHANGED <<results, errors, running, yielded, processed_matches, reported>>

PollUntilNoneAlive ==
    /\ pc = "poll"
    /\ running' = {w \in running : process_list[w].alive}
    /\ pc' = IF running' = {} THEN "join" ELSE "drain"
    /\ UNCHANGED <<collocator, call, result, printed, checked, cached>>
    /\ UNCHANGED <<process_list, results, errors, yielded, processed_matches, reported>>
\* "while running:" and the filter on is_alive()
Poll ==
    /\ pc = "poll"
    /\ IF running = {}
       THEN pc' = "join" /\ UNCHANGED running
       ELSE /\ running' = {w \in running : process_list[w].alive}
            /\ pc' = "drain"
    /\ UNCHANGED <<collocator, call, result, printed, checked, cached>>
    /\ UNCHANGED <<process_list, results, errors, yielded, processed_matches, reported>>

DrainCountsYielded ==
    /\ pc = "drain"
    /\ IF results # <<>>
       THEN /\ results' = Tail(results)
            /\ processed_matches' = processed_matches + (IF Head(results).null THEN 0 ELSE 1)
            /\ yielded' = IF Head(results).null THEN yielded
                          ELSE Append(yielded, Head(results))
            /\ UNCHANGED pc
       ELSE /\ pc' = "poll"
            /\ UNCHANGED <<results, yielded, processed_matches>>
    /\ UNCHANGED <<collocator, call, result, printed, checked, cached>>
    /\ UNCHANGED <<process_list, errors, running, reported>>
\* "while not results.empty():" processed_matches += 1, result = results.get(),
\* yielded if not None
Drain ==
    /\ pc = "drain"
    /\ IF results # <<>>
       THEN /\ results' = Tail(results)
            /\ processed_matches' = processed_matches + 1
            /\ yielded' = IF Head(results).null THEN yielded
                          ELSE Append(yielded, Head(results))
            /\ UNCHANGED pc
       ELSE /\ pc' = "poll"
            /\ UNCHANGED <<results, yielded, processed_matches>>
    /\ UNCHANGED <<collocator, call, result, printed, checked, cached>>
    /\ UNCHANGED <<process_list, errors, running, reported>>

\* "for process in process_list: process.join()"
Join ==
    /\ pc = "join"
    /\ \A w \in DOMAIN process_list : ~process_list[w].alive
    /\ pc' = "report"
    /\ UNCHANGED <<collocator, call, result, printed, checked, cached>>
    /\ UNCHANGED driver

\* "while not errors.empty():" one "Failed process: name (p_start - p_end)"
Report ==
    /\ pc = "report"
    /\ IF errors # <<>>
       THEN /\ errors' = Tail(errors)
            /\ reported' = Append(reported,
                 Only({[name |-> Head(errors).name,
                        p_start |-> Times(matches_chunk[1])[1],
                        p_end |-> Times(matches_chunk[Len(matches_chunk)])[2]] :
                       matches_chunk \in {process_list[Head(errors).name].matches}}))
            /\ UNCHANGED pc
       ELSE /\ pc' = "done"
            /\ UNCHANGED <<errors, reported>>
    /\ UNCHANGED <<collocator, call, result, printed, checked, cached>>
    /\ UNCHANGED <<process_list, results, running, yielded, processed_matches>>

Workers == 1..MaxProcesses
WorkerStep(w) ==
    /\ w \in DOMAIN process_list
    /\ WorkerPut(w) \/ Feed(w) \/ WorkerSkip(w) \/ WorkerFail(w) \/ WorkerFinish(w)
DriverStep == CollocateFilesets \/ Poll \/ Drain \/ Join \/ Report

NextFilesets ==
    \/ CollocateFilesets
    \/ \E w \in Workers : w \in DOMAIN process_list /\ WorkerPut(w)
    \/ \E w \in Workers : w \in DOMAIN process_list /\ Feed(w)
    \/ \E w \in Workers : w \in DOMAIN process_list /\ WorkerSkip(w)
    \/ \E w \in Workers : w \in DOMAIN process_list /\ WorkerFail(w)
    \/ \E w \in Workers : w \in DOMAIN process_list /\ WorkerFinish(w)
    \/ Poll
    \/ Drain
    \/ Join
    \/ Report

SpecFilesets == Init /\ [][NextFilesets]_vars

\* The caller keeps consuming, so the driver's loop goes on; every process
\* and every feeder thread is scheduled by the operating system.
FairSpecFilesets ==
    /\ SpecFilesets
    /\ WF_vars(DriverStep)
    /\ \A w \in Workers : WF_vars(WorkerStep(w))

\* ---- the claims ----
\* what a brute-force search over all pairs finds, as pairs of sample ids
HasPosition(x) == x.lat # NaN /\ x.lon # NaN
AllPairs(P, S) == {ij \in (1..Len(P)) \X (1..Len(S)) :
                      HasPosition(P[ij[1]]) /\ HasPosition(S[ij[2]])}
SpatialReference(P, S, d) ==
    {<<P[ij[1]].id, S[ij[2]].id>> : ij \in
        {ij \in AllPairs(P, S) : Distance(P[ij[1]].lat, P[ij[1]].lon,
                                          S[ij[2]].lat, S[ij[2]].lon) <= d}}
TemporalReference(P, S, delta) ==
    {<<P[ij[1]].id, S[ij[2]].id>> : ij \in
        {ij \in AllPairs(P, S) : Abs(P[ij[1]].time - S[ij[2]].time) < delta}}
\* the reference for the criteria of the last call
Qualifying ==
    IF call.args.max_interval = None
    THEN SpatialReference(call.primary, call.secondary, call.args.max_distance)
    ELSE SpatialReference(call.primary, call.secondary, call.args.max_distance)
           \cap TemporalReference(call.primary, call.secondary, call.args.max_interval)
SpatialCall == pc = "returned" /\ call.args.max_interval = None
                 /\ call.args.max_distance # None
BothCall == pc = "returned" /\ call.args.max_interval # None
              /\ call.args.max_distance # None

\* C1: a spatial search returns exactly the pairs of the brute-force reference,
\* every pair within max_distance included, also (0, 0) and a single pair.
C1_SpatialComplete ==
    SpatialCall => PairsOf(result) = Qualifying

\* C2: every pair of a returned record is a pair of samples with positions
\* that lie within max_distance of each other, whichever side the index was
\* built on and whether or not the cached index was reused.
C2_SpatialSound ==
    (pc = "returned" /\ call.args.max_distance # None)
        => PairsOf(result) \subseteq
             SpatialReference(call.primary, call.secondary, call.args.max_distance)
\* a record came back from a search that reused the cached index, built on
\* the primary points
C2_Witness ==
    /\ pc = "returned" /\ call.args.max_distance # None
    /\ result.kind = "record" /\ printed /\ index_with_primary

\* C3: every returned pair is strictly closer in time than max_interval,
\* measured on the timestamps.
C3_TemporalStrict ==
    (pc = "returned" /\ call.args.max_interval # None)
        => PairsOf(result) \subseteq
             TemporalReference(call.primary, call.secondary, call.args.max_interval)

\* C4: a search with both criteria returns exactly the pairs within
\* max_distance whose interval is below max_interval.
C4_Intersection ==
    BothCall => PairsOf(result) = Qualifying

\* C5: on time-sorted inputs the search with temporal binning and the direct
\* search, each followed by the temporal check, yield the same pairs.
C5_BinningEquivalent ==
    (pc = "search" /\ result.binned.kind # "none" /\ result.direct.kind # "none")
        => /\ result.binned.kind = result.direct.kind
           /\ PairsOf(result.binned) = PairsOf(result.direct)

\* C6: a spatial or combined search without any qualifying pair returns the
\* empty record and raises nothing.
C6_NoMatchEmpty ==
    ((SpatialCall \/ BothCall) /\ Qualifying = {}) => result.kind = "empty"

\* C7 as amended: check_collocation_data rejects the empty record collocate
\* returns when there are no collocations.
C7_EmptyRejected ==
    (pc = "checked" /\ result.kind = "empty") => checked = "InvalidCollocationData"
\* C7 as claimed: check_collocation_data accepts the empty record.
C7_EmptyAccepted ==
    (pc = "checked" /\ result.kind = "empty") => checked = "ok"
\* a search with both criteria found nothing and its empty record was checked
C7_Witness ==
    /\ pc = "checked" /\ result.kind = "empty"
    /\ call.args.max_interval # None /\ call.args.max_distance # None

\* C8: _spatial_is_cached answers true exactly for arrays of the length of the
\* arrays the index was built from with every coordinate equal.
C8_CacheCheck ==
    pc = "asked"
        => (cached <=> /\ index.built
                       /\ Len(call.lat) = Len(index.lat)
                       /\ call.lat = index.lat /\ call.lon = index.lon)

\* C9: what collocate returns does not depend on the calls made before: it is
\* what a new Collocator returns for the same arguments.
C9_Deterministic ==
    pc = "returned"
        => \E fresh \in {collocate(NewCollocator, call.primary, call.secondary,
                                   call.args).ret} :
              /\ result.kind = fresh.kind
              /\ PairsOf(result) = PairsOf(fresh)

\* C10: the remapped pair indices select in the reduced subsets the samples
\* the raw pair indices select in the datasets handed to _create_return.
C10_RoundTrip ==
    (pc = "assembled" /\ result.kind = "record")
        => /\ Len(result.pairs[1]) = Len(call.original_pairs[1])
           /\ Len(result.pairs[2]) = Len(call.original_pairs[2])
           /\ \A k \in 1..Len(result.pairs[1]) :
                /\ result.primary[result.pairs[1][k] + 1]
                     = call.primary[call.original_pairs[1][k] + 1]
                /\ result.secondary[result.pairs[2][k] + 1]
                     = call.secondary[call.original_pairs[2][k] + 1]
\* a record whose primary subset is not in index order and has a sample of
\* two pairs
C10_Witness ==
    /\ pc = "assembled" /\ result.kind = "record"
    /\ \E k \in 1..Len(result.pairs[1]) :
          result.pairs[1][k] # call.original_pairs[1][k]
    /\ Len(result.primary) < Len(result.pairs[1])

\* ---- the claims on collocate_filesets ----
\* the results yielded so far, each as the match it belongs to and its pairs
YieldedResults == {[match |-> yielded[k].match, pairs |-> yielded[k].pairs] :
                     k \in 1..Len(yielded)}
\* what a process yields that works, for call c, through the chunk from its
\* k-th match on with its Collocator self
RECURSIVE ChunkResults(_, _, _, _)
ChunkResults(self, c, matches_chunk, k) ==
    IF k > Len(matches_chunk) THEN {}
    ELSE IF ~c.matches[matches_chunk[k]].readable
    THEN IF c.skip_file_errors THEN ChunkResults(self, c, matches_chunk, k + 1) ELSE {}
    ELSE Only({IF r.raised THEN {}
               ELSE (IF r.null THEN {}
                     ELSE {[match |-> matches_chunk[k], pairs |-> r.pairs]})
                      \cup ChunkResults(r.self, c, matches_chunk, k + 1) :
               r \in {Collocated(self, c.matches[matches_chunk[k]], c.args)}})
\* what collocate_filesets yields for call c with a single process
OneProcess(c) ==
    ChunkResults(NewCollocator, c, array_split(Len(c.matches), 1)[1], 1)
NoneFailed == \A w \in DOMAIN process_list : ~process_list[w].failed

\* C11: a run of collocate_filesets in which no process fails yields, whatever
\* the number of processes, the set of results a single process yields for
\* the same matches and parameters.
C11_SameResultSet ==
    (pc = "done" /\ NoneFailed) => YieldedResults = OneProcess(call)

\* the results the processes give for their chunks
AllResults ==
    UNION {ChunkResults(NewCollocator, call, process_list[w].matches, 1) :
             w \in DOMAIN process_list}
Failed == {w \in DOMAIN process_list : process_list[w].failed}
\* the report due for process w: its name and the time span of its chunk
ReportOf(w) ==
    [name |-> w,
     p_start |-> Times(process_list[w].matches[1])[1],
     p_end |-> Times(process_list[w].matches[Len(process_list[w].matches)])[2]]
\* nothing is under way between the processes and the driver
ChannelEmpty ==
    /\ results = <<>>
    /\ \A w \in DOMAIN process_list : process_list[w].buffer = <<>>
AllTerminated == \A w \in DOMAIN process_list : ~process_list[w].alive

\* C12: when exactly one process fails (skip_file_errors=False), the finished
\* run has printed exactly one report, with the time span of that process's
\* chunk, and has yielded every result of every process, those the failing
\* process gave before it failed included.
C12_WorkerIsolation ==
    (pc = "done" /\ ~call.skip_file_errors /\ Cardinality(Failed) = 1) =>
        /\ Len(reported) = 1
        /\ \A w \in Failed : reported[1] = ReportOf(w)
        /\ YieldedResults = AllResults

\* the results that are on the result channel
OnChannel ==
    {[match |-> results[i].match, pairs |-> results[i].pairs] :
        i \in {i \in 1..Len(results) : ~results[i].null}}
    \cup UNION {{[match |-> process_list[w].buffer[i].match,
                  pairs |-> process_list[w].buffer[i].pairs] :
                    i \in {i \in 1..Len(process_list[w].buffer) :
                             ~process_list[w].buffer[i].null}} :
                w \in DOMAIN process_list}

\* C13: every run with processes comes to its end with every result of the
\* processes yielded; a result is on the result channel or yielded only if a
\* process gave it, never both and never yielded twice; and the polling loop
\* is left only when every process has terminated and the channel is empty.
C13_NoResultLost ==
    /\ (pc = "poll") ~> (pc = "done" /\ YieldedResults = AllResults)
    /\ [](/\ OnChannel \cup YieldedResults \subseteq AllResults
          /\ OnChannel \cap YieldedResults = {}
          /\ \A i, j \in 1..Len(yielded) : yielded[i].match = yielded[j].match => i = j)
    /\ [](pc \in {"join", "report", "done"} => AllTerminated /\ ChannelEmpty)
C13_Witness ==
    /\ pc = "done"
    /\ Len(process_list) = MaxProcesses
    /\ Failed # {}
    /\ Len(yielded) >= 2

\* C14: two results of the same process are yielded in the order of their
\* matches in the chunk of that process.
C14_WorkerOrder ==
    \A i, j \in 1..Len(yielded) :
        (i < j /\ yielded[i].name = yielded[j].name) => yielded[i].match < yielded[j].match
C14_Witness ==
    /\ Len(yielded) = 3
    /\ yielded[1].name = yielded[3].name
    /\ yielded[2].name # yielded[1].name

\* C15: every process that ended by an exception has exactly one report in
\* the finished run, and a report is printed only when all processes have
\* terminated and every result has been yielded.
C15_EveryFailureReported ==
    /\ pc = "done" =>
         \A w \in Failed : Cardinality({k \in 1..Len(reported) : reported[k].name = w}) = 1
    /\ reported # <<>> => AllTerminated /\ ChannelEmpty

\* C16: with a number of filesets other than two, without max_interval or
\* without max_distance no process is ever started.
C16_FailFast ==
    (pc # "idle" /\ (\/ call.filesets # 2
                     \/ call.args.max_interval = None
                     \/ call.args.max_distance = None))
        => process_list = <<>>

\* ---- the claims on the errors of collocate and on check_collocation_data ----
\* C17: a call with max_interval and without max_distance always ends with
\* NotImplementedError, whatever the data; it never returns.
C17_TemporalOnlyFails ==
    (pc = "returned" /\ call.args.max_interval # None /\ call.args.max_distance = None)
        => (result.kind = "raise" /\ result.exc = temporal_search)

\* C18: a call with neither max_distance nor max_interval raises ValueError
\* and leaves every attribute of the Collocator as it was.
C18_NoCriterion ==
    [][(pc = "idle" /\ pc' = "returned"
        /\ call'.args.max_distance = None /\ call'.args.max_interval = None)
       => (result'.kind = "raise" /\ result'.exc = "ValueError" /\ UNCHANGED collocator)]_vars
C18_Witness ==
    /\ pc = "returned"
    /\ call.args.max_distance = None /\ call.args.max_interval = None
    /\ result.exc = "ValueError"
    /\ index.built
    /\ bin_factor = MaxBinFactor

\* C20: check_collocation_data raises InvalidCollocationData exactly for a
\* dataset without "Collocations/pairs" or without "Collocations/group", and
\* every record of _create_return passes.
C20_CheckedIffMissing ==
    pc = "checked" =>
        /\ checked = "InvalidCollocationData"
             <=> ~({"Collocations/pairs", "Collocations/group"} \subseteq result.variables)
        /\ result.kind = "record" => checked = "ok"
C20_Witness == pc = "checked" /\ result.kind = "record" /\ checked = "ok"

\* C19: the metric of a search is the one the tunnel_limit of the call selects:
\* haversine when max_distance is greater than tunnel_limit, tunnel otherwise
\* and always when no tunnel_limit is given.
C19_MetricByTunnelLimit ==
    pc = "returned" =>
        Metric(call.index, call.query) =
            (IF call.args.tunnel_limit # None
                /\ call.args.max_distance > call.args.tunnel_limit
             THEN "haversine" ELSE "tunnel")

\* ---- the claims on the chunks, the channels and the items ----
\* the chunks of the processes 1..i, one behind the other
RECURSIVE ChunksUpTo(_)
ChunksUpTo(i) == IF i = 0 THEN <<>> ELSE ChunksUpTo(i - 1) \o process_list[i].matches

\* C21: there are min(processes, number of matches) processes, the chunk of
\* each is a non-empty run of consecutive matches, and the chunks in the order
\* of the processes make up the list of matches.
C21_ContiguousPartition ==
    process_list # <<>> =>
        /\ Len(process_list) = Min(call.processes, Len(call.matches))
        /\ \A w \in DOMAIN process_list :
             /\ process_list[w].matches # <<>>
             /\ \A k \in 1..(Len(process_list[w].matches) - 1) :
                  process_list[w].matches[k + 1] = process_list[w].matches[k] + 1
        /\ ChunksUpTo(Len(process_list)) = [k \in 1..Len(call.matches) |-> k]
C21_Witness ==
    /\ Len(process_list) = MaxProcesses
    /\ Len(call.matches) = MaxMatches
    /\ Len(process_list[1].matches) > Len(process_list[MaxProcesses].matches)

\* C22: a process has put one item for every file pair it went through and
\* did not pass over, so processed_matches never exceeds the number of file
\* pairs of the matches and equals it at the end of a run in which no process
\* failed and no file pair was passed over.
C22_OneItemPerPair ==
    pc # "idle" =>
        /\ \A w \in DOMAIN process_list :
             process_list[w].processed =
                Cardinality({k \in 1..(process_list[w].position - 1) :
                    call.matches[process_list[w].matches[k]].readable})
        /\ processed_matches <= Len(call.matches)
        /\ (pc = "done" /\ NoneFailed
            /\ \A k \in 1..Len(call.matches) : call.matches[k].readable)
               => processed_matches = Len(call.matches)
C22_Witness ==
    /\ pc = "done"
    /\ NoneFailed
    /\ processed_matches = MaxMatches
    /\ Len(yielded) < MaxMatches

\* C23: the results put by the processes and not yet taken by
\* collocate_filesets are never more than there are processes; a process
\* cannot put while that many are waiting, and only a get of
\* collocate_filesets makes room again; a process that fails is never held up
\* by the errors queue, however many errors wait in it.
C23_BoundedResults ==
    /\ [](Len(results) + Buffered(Len(process_list)) <= Len(process_list))
    /\ [](\A w \in DOMAIN process_list :
            /\ Full => ~ENABLED WorkerPut(w)
            /\ (/\ pc \in {"poll", "drain"}
                /\ HasNext(w)
                /\ process_list[w].buffer = <<>>
                /\ \/ ~Current(w).readable /\ ~call.skip_file_errors
                   \/ /\ Current(w).readable
                      /\ Collocated(process_list[w].collocator, Current(w),
                                    call.args).raised)
               => ENABLED WorkerFail(w))
    /\ [][(process_list # <<>> /\ Full /\ ~Full' /\ pc' # "idle")
            => (results # <<>> /\ results' = Tail(results))]_vars
C23_Witness ==
    /\ pc \in {"poll", "drain"}
    /\ Full
    /\ \E w \in DOMAIN process_list :
         /\ HasNext(w)
         /\ Current(w).readable
         /\ ~Collocated(process_list[w].collocator, Current(w), call.args).raised

\* C24: while the run is on, every process that has failed has one error on
\* the errors queue, with its name, the file pair it was at when the exception
\* was raised and the number of file pairs it had put before.
C24_ErrorNamesFailedMatch ==
    pc \in {"poll", "drain", "join"} =>
        \A w \in Failed :
            \E i \in 1..Len(errors) :
                /\ errors[i].name = w
                /\ errors[i].msg = process_list[w].matches[process_list[w].position]
                /\ errors[i].processed = process_list[w].processed
                /\ \A j \in 1..Len(errors) : errors[j].name = w => j = i

\* C29: a call with two filesets and max_interval whose filesets have no
\* matches starts no process, yields nothing and does not raise.
C29_NoMatchesNoError ==
    (/\ pc # "idle"
     /\ call.filesets = 2
     /\ call.args.max_interval # None
     /\ call.matches = <<>>)
        => /\ process_list = <<>>
           /\ yielded = <<>>
           /\ pc # "raised"

\* C30: every result that is yielded names the primary file of its file pair
\* as the file of the primary fileset and the secondary file as the file of
\* the secondary fileset, and comes with the attributes of both files.
C30_FilesOfThePair ==
    \A i \in 1..Len(yielded) :
        /\ yielded[i].primary_file = FileInfo(1, yielded[i].match).path
        /\ yielded[i].secondary_file = FileInfo(2, yielded[i].match).path
        /\ yielded[i].attributes = FileInfo(1, yielded[i].match).attr
                                   \cup FileInfo(2, yielded[i].match).attr

\* ---- the claims on the searches of collocate ----
\* C25: _choose_points_to_build_index builds with the larger set when it is
\* more than magnitude_factor times the other; otherwise with the set the
\* index was built with last time when those are still the points of the
\* index; otherwise with the larger set.
C25_BuildSideChoice ==
    pc = "chosen" =>
        LET size1 == Len(call.lat1)
            size2 == Len(call.lat2)
            larger == /\ size1 > size2 => cached
                      /\ size2 > size1 => ~cached
            same1 == index.built /\ call.lat1 = index.lat /\ call.lon1 = index.lon
            same2 == index.built /\ call.lat2 = index.lat /\ call.lon2 = index.lon
        IN  IF \/ size1 > size2 * call.magnitude_factor
               \/ size2 > size1 * call.magnitude_factor
            THEN larger
            ELSE IF index_with_primary /\ same1 THEN cached
            ELSE IF ~index_with_primary /\ same2 THEN ~cached
            ELSE larger

\* C26: in a record that collocate returns, every pair names two samples of
\* the datasets of the call that have both coordinates, and, when the index
\* was built for this call, the two samples the search found: they are within
\* max_distance of each other.
C26_PairsNameFoundSamples ==
    (pc = "returned" /\ result.kind = "record") =>
        \A k \in 1..Len(result.pairs[1]) :
            \E p \in {result.primary[result.pairs[1][k] + 1]},
               s \in {result.secondary[result.pairs[2][k] + 1]} :
                /\ p = call.primary[p.id + 1]
                /\ s = call.secondary[s.id + 1]
                /\ p.lat # NaN /\ p.lon # NaN
                /\ s.lat # NaN /\ s.lon # NaN
                /\ ~printed =>
                     Distance(p.lat, p.lon, s.lat, s.lon) <= call.args.max_distance
\* a record with a pair whose primary sample comes after a sample without
\* position in the dataset of the call
C26_Witness ==
    /\ pc = "returned" /\ result.kind = "record"
    /\ \E k \in 1..Len(result.pairs[1]) :
         \E p \in {result.primary[result.pairs[1][k] + 1]} :
            \E i \in 1..p.id : call.primary[i].lat = NaN

\* ---- the claims on the record ----
\* C27: on either side the subset of a record holds every sample that a pair
\* names exactly once, in the order in which the samples first appear in the
\* row of the pairs, and the row of the record takes exactly the values
\* 0..U-1, U the number of distinct samples named.
C27_DenseRemap ==
    (pc = "assembled" /\ result.kind = "record") =>
        \A i \in 1..2 :
            \E row \in {call.original_pairs[i]},
               dataset \in {IF i = 1 THEN call.primary ELSE call.secondary},
               subset \in {IF i = 1 THEN result.primary ELSE result.secondary} :
                /\ Len(subset) = Cardinality({row[k] : k \in 1..Len(row)})
                /\ \A k \in 1..Len(row) :
                     Cardinality({j \in 1..Len(subset) : subset[j] = dataset[row[k] + 1]}) = 1
                /\ \A j \in 1..Len(subset) :
                     \E k \in 1..Len(row) :
                        /\ subset[j] = dataset[row[k] + 1]
                        /\ {row[n] : n \in 1..(k - 1)}
                             = {subset[n].id : n \in 1..(j - 1)}
                /\ {result.pairs[i][k] : k \in 1..Len(row)} = 0..(Len(subset) - 1)
\* a row that names its samples out of ascending order and one of them twice
C27_Witness ==
    /\ pc = "assembled" /\ result.kind = "record"
    /\ call.original_pairs[1] = <<1, 0, 1>>
    /\ Len(result.primary) = 2

\* C28: in a record that a search with both criteria gives, with or without
\* temporal binning, the pairs, the distances and the intervals have one
\* length, and the k-th distance and the k-th interval (in whole seconds) are
\* those of the two samples that the k-th pair names.
C28_AlignedArrays ==
    pc = "search" =>
        \A rec \in {r \in {result.binned, result.direct} : r.kind = "record"} :
            /\ Len(rec.pairs[1]) = Len(rec.pairs[2])
            /\ Len(rec.distance) = Len(rec.pairs[1])
            /\ Len(rec.interval) = Len(rec.pairs[1])
            /\ \A k \in 1..Len(rec.pairs[1]) :
                 \E p \in {rec.primary[rec.pairs[1][k] + 1]},
                    s \in {rec.secondary[rec.pairs[2][k] + 1]} :
                     /\ rec.distance[k] = Distance(p.lat, p.lon, s.lat, s.lon)
                     /\ rec.interval[k] = Abs(p.time - s.time) \div TicksPerSec

====
